---- MODULE Spec2Model ----
(***************************************************************************)
(* Two React components implement the falling-block game:                  *)
(*   src/unnamed/part_000  wall kicks, ghost piece, hard drop ("part_000") *)
(*   src/script.js         the simplified variant              ("script")  *)
(* One of them is mounted; `mounted` says which.  The hooks of part_000    *)
(* are the variables board .. gameStarted, the single hook of script.js    *)
(* is the record gameState.  `timers` holds the delays of the intervals    *)
(* that setInterval created and clearInterval has not cleared.             *)
(*                                                                         *)
(* Matrices (boards, shapes) are sequences of rows; the source's 0-based   *)
(* index i is the 1-based index i+1 here.  Coordinates (pos.x, pos.y, the  *)
(* newX/newY of the collision test) keep the source's 0-based values.      *)
(*                                                                         *)
(* Every handler is an operator from the values its closure captured (c),  *)
(* the pending hook state its functional updaters receive (s or prev) and  *)
(* the outcomes of Math.random to the next hook state.  Under Spec the     *)
(* component has re-rendered between two events, so c is the state itself. *)
(***************************************************************************)
EXTENDS Integers, Sequences, FiniteSets, TLC

VARIABLES mounted,
          board, currentPiece, nextPiece, score, lines, level,
          gameOver, isPaused, gameStarted,
          gameState,
          timers,
          last, used

kickVars == <<board, currentPiece, nextPiece, score, lines, level,
              gameOver, isPaused, gameStarted>>
vars == <<mounted, board, currentPiece, nextPiece, score, lines, level,
          gameOver, isPaused, gameStarted, gameState, timers, last, used>>

\* ------------------------------------------------------------- bounds
\* The horizon of a run: the locks and new games played after the initial
\* position.
Horizon == 1

\* ---------------------------------------------------------- constants
BOARD_WIDTH == 10
BOARD_HEIGHT == 20

Null == "null"

Floor2(n) == n \div 2

\* ------------------------------------------------ part_000: catalogue
TETROMINOES ==
    [I |-> [shape |-> <<<<0,0,0,0>>, <<1,1,1,1>>, <<0,0,0,0>>, <<0,0,0,0>>>>,
            color |-> "bg-cyan-400"],
     J |-> [shape |-> <<<<1,0,0>>, <<1,1,1>>, <<0,0,0>>>>, color |-> "bg-blue-500"],
     L |-> [shape |-> <<<<0,0,1>>, <<1,1,1>>, <<0,0,0>>>>, color |-> "bg-orange-500"],
     O |-> [shape |-> <<<<1,1>>, <<1,1>>>>, color |-> "bg-yellow-400"],
     S |-> [shape |-> <<<<0,1,1>>, <<1,1,0>>, <<0,0,0>>>>, color |-> "bg-green-500"],
     T |-> [shape |-> <<<<0,1,0>>, <<1,1,1>>, <<0,0,0>>>>, color |-> "bg-purple-500"],
     Z |-> [shape |-> <<<<1,1,0>>, <<0,1,1>>, <<0,0,0>>>>, color |-> "bg-red-500"]]

TETROMINO_KEYS == {"I", "J", "L", "O", "S", "T", "Z"}

\* randomTetromino with Math.random landing on `key`.
randomTetromino(key) ==
    [type |-> key, shape |-> TETROMINOES[key].shape, color |-> TETROMINOES[key].color]

\* A matrix as an array of arrays of its own (board.map(row => [...row])).
copyMatrix(m) == SubSeq([r \in 1..Len(m) |-> SubSeq(m[r], 1, Len(m[r]))], 1, Len(m))

EmptyRow == SubSeq([x \in 1..BOARD_WIDTH |-> Null], 1, BOARD_WIDTH)

createEmptyBoard == SubSeq([y \in 1..BOARD_HEIGHT |-> EmptyRow], 1, BOARD_HEIGHT)

\* ------------------------------------------------ part_000: helpers
checkCollision(piecePos, pieceShape, boardState) ==
    \E y \in 0..(Len(pieceShape) - 1) :
      \E x \in 0..(Len(pieceShape[y + 1]) - 1) :
        /\ pieceShape[y + 1][x + 1] # 0
        /\ LET newX == piecePos.x + x
               newY == piecePos.y + y
           IN  \/ newX < 0
               \/ newX >= BOARD_WIDTH
               \/ newY >= BOARD_HEIGHT
               \/ (newY >= 0 /\ boardState[newY + 1][newX + 1] # Null)

\* matrix[0].map((val, index) => matrix.map(row => row[index]).reverse())
rotateMatrix(matrix) ==
    copyMatrix([index \in 1..Len(matrix[1]) |->
        [k \in 1..Len(matrix) |-> matrix[Len(matrix) + 1 - k][index]]])

\* The loop `while (!checkCollision({x, y: currentY + 1}, shape, board)) currentY += 1`
\* of hardDrop and getDisplayBoard.
RECURSIVE Landing(_, _, _, _)
Landing(x, currentY, shape, boardState) ==
    IF ~checkCollision([x |-> x, y |-> currentY + 1], shape, boardState)
    THEN Landing(x, currentY + 1, shape, boardState)
    ELSE currentY

\* Whether the shape at (px, py) has a non-zero cell on the board coordinate
\* (bx, by), (bx, by) being inside the board.
Covers(shape, px, py, bx, by) ==
    /\ by >= 0 /\ by < BOARD_HEIGHT /\ bx >= 0 /\ bx < BOARD_WIDTH
    /\ by - py \in 0..(Len(shape) - 1)
    /\ bx - px \in 0..(Len(shape[by - py + 1]) - 1)
    /\ shape[by - py + 1][bx - px + 1] # 0

\* The forEach of lockPiece and hardDrop on a copy of the board: every non-zero
\* cell of the shape whose board coordinate is inside the board is written with
\* the piece's colour.
Merge(boardState, piece, px, py) ==
    copyMatrix([r \in 1..Len(boardState) |->
        [q \in 1..Len(boardState[r]) |->
            IF Covers(piece.shape, px, py, q - 1, r - 1)
            THEN piece.color
            ELSE boardState[r][q]]])

isFull(row) == \A x \in 1..Len(row) : row[x] # Null

\* A variant of scoreMultipliers with another table.
scoreMultipliersLinear == <<0, 100, 200, 300, 400>>

scoreMultipliers == <<0, 100, 300, 500, 800>>

\* --------------------------------------------- part_000: hook state
\* The hook values as one record: what a render captures in its closures, and
\* what the queued updaters of a handler are applied to.
Hooks ==
    [board |-> board, currentPiece |-> currentPiece, nextPiece |-> nextPiece,
     score |-> score, lines |-> lines, level |-> level,
     gameOver |-> gameOver, isPaused |-> isPaused, gameStarted |-> gameStarted]

Commit(t) ==
    /\ board' = t.board
    /\ currentPiece' = t.currentPiece
    /\ nextPiece' = t.nextPiece
    /\ score' = t.score
    /\ lines' = t.lines
    /\ level' = t.level
    /\ gameOver' = t.gameOver
    /\ isPaused' = t.isPaused
    /\ gameStarted' = t.gameStarted

\* The guard `if (gameOver || isPaused || !gameStarted) return` of move, rotate,
\* drop and hardDrop.
Rejects(c) == c.gameOver \/ c.isPaused \/ ~c.gameStarted

SpawnX(shape) == Floor2(BOARD_WIDTH) - Floor2(Len(shape[1]))

\* --------------------------------------------- part_000: actions
\* A variant of move without the checkCollision test.
moveUnchecked(c, s, dirX, dirY) ==
    IF Rejects(c) THEN [s |-> s, ret |-> FALSE]
    ELSE LET newPos == [x |-> c.currentPiece.pos.x + dirX,
                        y |-> c.currentPiece.pos.y + dirY]
         IN  [s |-> [s EXCEPT !.currentPiece.pos = newPos], ret |-> TRUE]

\* move: the new hook state and the value returned.
move(c, s, dirX, dirY) ==
    IF Rejects(c) THEN [s |-> s, ret |-> FALSE]
    ELSE LET newPos == [x |-> c.currentPiece.pos.x + dirX,
                        y |-> c.currentPiece.pos.y + dirY]
         IN  IF ~checkCollision(newPos, c.currentPiece.shape, c.board)
             THEN [s |-> [s EXCEPT !.currentPiece.pos = newPos], ret |-> TRUE]
             ELSE [s |-> s, ret |-> FALSE]

\* A variant of rotateKick that always takes the plain rotation.
rotateKickUnchecked(c) == "x"

\* A variant of rotateKick that tries x + 1 before x - 1.
rotateKickRightFirst(c) ==
    LET rotatedShape == rotateMatrix(c.currentPiece.shape)
        pos == c.currentPiece.pos
    IN  IF ~checkCollision(pos, rotatedShape, c.board) THEN "x"
        ELSE IF ~checkCollision([pos EXCEPT !.x = pos.x + 1], rotatedShape, c.board)
             THEN "right"
        ELSE IF ~checkCollision([pos EXCEPT !.x = pos.x - 1], rotatedShape, c.board)
             THEN "left"
        ELSE "blocked"

\* Which branch of rotate's wall-kick chain is taken.
rotateKick(c) ==
    LET rotatedShape == rotateMatrix(c.currentPiece.shape)
        pos == c.currentPiece.pos
    IN  IF ~checkCollision(pos, rotatedShape, c.board) THEN "x"
        ELSE IF ~checkCollision([pos EXCEPT !.x = pos.x - 1], rotatedShape, c.board)
             THEN "left"
        ELSE IF ~checkCollision([pos EXCEPT !.x = pos.x + 1], rotatedShape, c.board)
             THEN "right"
        ELSE "blocked"

\* A variant of rotate with a floor kick: the rotated piece is lifted one row.
rotateLifts(c, s) ==
    IF Rejects(c) THEN s
    ELSE LET rotatedShape == rotateMatrix(c.currentPiece.shape)
         IN  IF ~checkCollision([x |-> c.currentPiece.pos.x,
                                 y |-> c.currentPiece.pos.y - 1],
                                rotatedShape, c.board)
             THEN [s EXCEPT !.currentPiece.shape = rotatedShape,
                            !.currentPiece.pos.y = s.currentPiece.pos.y - 1]
             ELSE s

rotate(c, s) ==
    IF Rejects(c) THEN s
    ELSE LET rotatedShape == rotateMatrix(c.currentPiece.shape)
             kick == rotateKick(c)
         IN  IF kick = "x"
             THEN [s EXCEPT !.currentPiece.shape = rotatedShape]
             ELSE IF kick = "left"
             THEN [s EXCEPT !.currentPiece.pos.x = s.currentPiece.pos.x - 1,
                            !.currentPiece.shape = rotatedShape]
             ELSE IF kick = "right"
             THEN [s EXCEPT !.currentPiece.pos.x = s.currentPiece.pos.x + 1,
                            !.currentPiece.shape = rotatedShape]
             ELSE s

\* A variant of clearFull that stops at the first full row it meets.
clearFullOnce(nextBoardState) ==
    LET full == {r \in 1..Len(nextBoardState) : isFull(nextBoardState[r])}
        first == CHOOSE r \in full : \A q \in full : r <= q
    IN  IF full = {} THEN <<nextBoardState, 0>>
        ELSE <<copyMatrix(<<EmptyRow>> \o SubSeq(nextBoardState, 1, first - 1)
                          \o SubSeq(nextBoardState, first + 1, Len(nextBoardState))), 1>>

\* Steps 2-3 of the lock: <<finalBoard, linesCleared>>, the rows that are not
\* full under as many empty rows as it takes to reach BOARD_HEIGHT.
clearFull(nextBoardState) ==
    LET kept == SelectSeq(nextBoardState, LAMBDA row : ~isFull(row))
        linesCleared ==
            Cardinality({r \in 1..Len(nextBoardState) : isFull(nextBoardState[r])})
    IN  <<[i \in 1..(BOARD_HEIGHT - Len(kept)) |-> EmptyRow] \o kept, linesCleared>>

\* Steps 2-5 of the lock: clear full rows, update the statistics, spawn.
\* `key` is the outcome of the randomTetromino() that refills the queue.
processBoardUpdate(c, s, nextBoardState, key) ==
    LET linesCleared == clearFull(nextBoardState)[2]
        finalBoard == clearFull(nextBoardState)[1]
        s1 == IF linesCleared > 0
              THEN [s EXCEPT
                      !.lines = s.lines + linesCleared,
                      !.score = s.score + scoreMultipliers[linesCleared + 1] * c.level,
                      !.level = ((c.lines + linesCleared) \div 10) + 1]
              ELSE s
        s2 == [s1 EXCEPT !.board = finalBoard]
        newPiece == [type |-> c.nextPiece.type, shape |-> c.nextPiece.shape,
                     color |-> c.nextPiece.color,
                     pos |-> [x |-> SpawnX(c.nextPiece.shape), y |-> 0]]
    IN  IF checkCollision(newPiece.pos, newPiece.shape, finalBoard)
        THEN [s2 EXCEPT !.gameOver = TRUE, !.gameStarted = FALSE]
        ELSE [s2 EXCEPT !.currentPiece = newPiece,
                        !.nextPiece = randomTetromino(key)]

lockPiece(c, s, key) ==
    LET newBoard == Merge(c.board, c.currentPiece,
                          c.currentPiece.pos.x, c.currentPiece.pos.y)
    IN  processBoardUpdate(c, s, newBoard, key)

\* Whether drop takes its lock branch.
dropLocks(c) ==
    /\ ~Rejects(c)
    /\ checkCollision([x |-> c.currentPiece.pos.x, y |-> c.currentPiece.pos.y + 1],
                      c.currentPiece.shape, c.board)

drop(c, s, key) ==
    IF Rejects(c) THEN s
    ELSE LET newPos == [x |-> c.currentPiece.pos.x, y |-> c.currentPiece.pos.y + 1]
         IN  IF ~checkCollision(newPos, c.currentPiece.shape, c.board)
             THEN [s EXCEPT !.currentPiece.pos = newPos]
             ELSE lockPiece(c, s, key)

\* A variant of finalYLoop that probes two rows ahead: it stops one row above
\* the landing row.
RECURSIVE finalYLoopShort(_, _)
finalYLoopShort(c, finalY) ==
    IF ~checkCollision([x |-> c.currentPiece.pos.x, y |-> finalY + 2],
                       c.currentPiece.shape, c.board)
    THEN finalYLoopShort(c, finalY + 1)
    ELSE finalY

\* The second landing loop of hardDrop (finalY), the one the lock uses.
RECURSIVE finalYLoop(_, _)
finalYLoop(c, finalY) ==
    IF ~checkCollision([x |-> c.currentPiece.pos.x, y |-> finalY + 1],
                       c.currentPiece.shape, c.board)
    THEN finalYLoop(c, finalY + 1)
    ELSE finalY

hardDropFinalY(c) == finalYLoop(c, c.currentPiece.pos.y)

\* The board hardDrop hands to processBoardUpdate.
hardDropLockedBoard(c) ==
    Merge(c.board, c.currentPiece, c.currentPiece.pos.x, hardDropFinalY(c))

hardDrop(c, s, key) ==
    IF Rejects(c) THEN s
    ELSE LET currentY == Landing(c.currentPiece.pos.x, c.currentPiece.pos.y,
                                 c.currentPiece.shape, c.board)
             s1 == [s EXCEPT !.currentPiece.pos.y = currentY]
         IN  processBoardUpdate(c, s1, hardDropLockedBoard(c), key)

\* A variant of StartX without the division by two.
StartXEdge == BOARD_WIDTH - 1

\* x of the piece startGame and the initial useState create.
StartX == Floor2(BOARD_WIDTH) - 1

\* A variant of startGame without its setScore(0).
startGameKeepsScore(s, key1, key2) ==
    [board |-> createEmptyBoard,
     currentPiece |-> [type |-> key1, shape |-> TETROMINOES[key1].shape,
                       color |-> TETROMINOES[key1].color,
                       pos |-> [x |-> StartX, y |-> 0]],
     nextPiece |-> randomTetromino(key2),
     score |-> s.score, lines |-> 0, level |-> 1,
     gameOver |-> FALSE, isPaused |-> FALSE, gameStarted |-> TRUE]

startGame(s, key1, key2) ==
    [board |-> createEmptyBoard,
     currentPiece |-> [type |-> key1, shape |-> TETROMINOES[key1].shape,
                       color |-> TETROMINOES[key1].color,
                       pos |-> [x |-> StartX, y |-> 0]],
     nextPiece |-> randomTetromino(key2),
     score |-> 0, lines |-> 0, level |-> 1,
     gameOver |-> FALSE, isPaused |-> FALSE, gameStarted |-> TRUE]

\* tickRate is non-null: the interval of useInterval exists.
tickRateSet(c) == c.gameStarted /\ ~c.isPaused /\ ~c.gameOver

\* A variant of ghostLoop that stops one row early when the piece can fall.
ghostLoopShort(c, ghostY) ==
    IF ~checkCollision([x |-> c.currentPiece.pos.x, y |-> ghostY + 1],
                       c.currentPiece.shape, c.board)
    THEN finalYLoop(c, ghostY + 1) - 1
    ELSE ghostY

\* The ghost loop of getDisplayBoard.
RECURSIVE ghostLoop(_, _)
ghostLoop(c, ghostY) ==
    IF ~checkCollision([x |-> c.currentPiece.pos.x, y |-> ghostY + 1],
                       c.currentPiece.shape, c.board)
    THEN ghostLoop(c, ghostY + 1)
    ELSE ghostY

displayGhostY(c) == ghostLoop(c, c.currentPiece.pos.y)

Ghost == "bg-gray-700/50 border-2 border-dashed border-white/20"

getDisplayBoard(c) ==
    LET p == c.currentPiece
        withGhost ==
            IF c.gameStarted /\ ~c.gameOver /\ ~c.isPaused
            THEN [r \in 1..BOARD_HEIGHT |->
                    [q \in 1..BOARD_WIDTH |->
                        IF /\ Covers(p.shape, p.pos.x, displayGhostY(c), q - 1, r - 1)
                           /\ c.board[r][q] = Null
                        THEN Ghost ELSE c.board[r][q]]]
            ELSE c.board
    IN  IF c.gameStarted /\ ~c.gameOver
        THEN [r \in 1..BOARD_HEIGHT |->
                [q \in 1..BOARD_WIDTH |->
                    IF Covers(p.shape, p.pos.x, p.pos.y, q - 1, r - 1)
                    THEN p.color ELSE withGhost[r][q]]]
        ELSE withGhost

\* ------------------------------------------------ script.js: catalogue
\* PIECES[index], index 0..6 (I, O, S, Z, J, L, T); COLORS shares the index.
PIECES ==
    [i \in 0..6 |->
        <<<< <<1,1,1,1>> >>,
          << <<1,1>>, <<1,1>> >>,
          << <<0,1,1>>, <<1,1,0>> >>,
          << <<1,1,0>>, <<0,1,1>> >>,
          << <<1,0,0>>, <<1,1,1>> >>,
          << <<0,0,1>>, <<1,1,1>> >>,
          << <<0,1,0>>, <<1,1,1>> >> >>[i + 1]]

PieceIndexes == 0..6

\* getRandomPiece with Math.random landing on `index`: [PIECES[index], index].
getRandomPiece(index) == <<PIECES[index], index>>

simpleEmptyRow == SubSeq([x \in 1..BOARD_WIDTH |-> 0], 1, BOARD_WIDTH)

simpleCreateEmptyBoard == SubSeq([y \in 1..BOARD_HEIGHT |-> simpleEmptyRow], 1, BOARD_HEIGHT)

\* A variant of rotatePiece that writes rotated[j][n - i]: column 0 of every row
\* stays 0 and the row grows by one cell.
rotatePieceOffByOne(piece) ==
    LET n == Len(piece)
    IN  copyMatrix([j \in 1..Len(piece[1]) |->
                      <<0>> \o [k \in 1..n |-> piece[n + 1 - k][j]]])

\* rotated[j][n - 1 - i] = piece[i][j]
rotatePiece(piece) ==
    LET n == Len(piece)
    IN  copyMatrix([j \in 1..Len(piece[1]) |-> [k \in 1..n |-> piece[n + 1 - k][j]]])

canMove(b, piece, x, y) ==
    ~ \E i \in 0..(Len(piece) - 1) :
        \E j \in 0..(Len(piece[i + 1]) - 1) :
          /\ piece[i + 1][j + 1] # 0
          /\ LET newX == x + j
                 newY == y + i
             IN  \/ newX < 0
                 \/ newX >= BOARD_WIDTH
                 \/ newY >= BOARD_HEIGHT
                 \/ (newY >= 0 /\ b[newY + 1][newX + 1] # 0)

placePiece(b, piece, x, y, color) ==
    copyMatrix([r \in 1..Len(b) |->
        [q \in 1..Len(b[r]) |->
            IF Covers(piece, x, y, q - 1, r - 1) THEN color + 1 ELSE b[r][q]]])

simpleRowFull(row) == \A x \in 1..Len(row) : row[x] # 0

\* A variant of clearLinesLoop that unshifts two rows for each row it splices.
RECURSIVE clearLinesLoopGrow(_, _, _)
clearLinesLoopGrow(newBoard, linesCleared, i) ==
    IF i < 0 THEN <<newBoard, linesCleared>>
    ELSE IF simpleRowFull(newBoard[i + 1])
         THEN clearLinesLoopGrow(
                  <<simpleEmptyRow, simpleEmptyRow>> \o SubSeq(newBoard, 1, i)
                      \o SubSeq(newBoard, i + 2, Len(newBoard)),
                  linesCleared + 1, i + 1)
         ELSE clearLinesLoopGrow(newBoard, linesCleared, i - 1)

\* A variant of clearLinesLoop that counts every spliced row twice.
RECURSIVE clearLinesLoopTwice(_, _, _)
clearLinesLoopTwice(newBoard, linesCleared, i) ==
    IF i < 0 THEN <<newBoard, linesCleared>>
    ELSE IF simpleRowFull(newBoard[i + 1])
         THEN clearLinesLoopTwice(
                  <<simpleEmptyRow>> \o SubSeq(newBoard, 1, i)
                      \o SubSeq(newBoard, i + 2, Len(newBoard)),
                  linesCleared + 2, i)
         ELSE clearLinesLoopTwice(newBoard, linesCleared, i - 1)

\* A variant of clearLinesLoop without the i++ after the splice: the row that
\* slid into index i is not looked at.
RECURSIVE clearLinesLoopSkip(_, _, _)
clearLinesLoopSkip(newBoard, linesCleared, i) ==
    IF i < 0 THEN <<newBoard, linesCleared>>
    ELSE IF simpleRowFull(newBoard[i + 1])
         THEN clearLinesLoopSkip(
                  <<simpleEmptyRow>> \o SubSeq(newBoard, 1, i)
                      \o SubSeq(newBoard, i + 2, Len(newBoard)),
                  linesCleared + 1, i - 1)
         ELSE clearLinesLoopSkip(newBoard, linesCleared, i - 1)

\* The loop of clearLines: i runs from the bottom row up; a full row is spliced
\* out, an empty row is unshifted and the same index is looked at again.
RECURSIVE clearLinesLoop(_, _, _)
clearLinesLoop(newBoard, linesCleared, i) ==
    IF i < 0 THEN <<newBoard, linesCleared>>
    ELSE IF simpleRowFull(newBoard[i + 1])
         THEN clearLinesLoop(
                  <<simpleEmptyRow>> \o SubSeq(newBoard, 1, i)
                      \o SubSeq(newBoard, i + 2, Len(newBoard)),
                  linesCleared + 1, i)
         ELSE clearLinesLoop(newBoard, linesCleared, i - 1)

clearLines(b) == clearLinesLoop(b, 0, Len(b) - 1)

scoreIncrease(linesCleared) ==
    IF linesCleared = 1 THEN 100
    ELSE IF linesCleared = 2 THEN 300
    ELSE IF linesCleared = 3 THEN 500
    ELSE 800

\* Whether moveDown takes its lock branch.
moveDownLocks(prev) ==
    /\ ~(prev.gameOver \/ prev.isPaused)
    /\ ~canMove(prev.board, prev.currentPiece, prev.position.x, prev.position.y + 1)

\* A variant of newLevel that counts the levels from 0.
newLevelFromZero(newLines) == newLines \div 10

newLevel(newLines) == (newLines \div 10) + 1

\* The updater of moveDown; index1 and index2 are the outcomes of the two
\* getRandomPiece() calls that fill nextPiece and nextColor.
moveDown(prev, index1, index2) ==
    IF prev.gameOver \/ prev.isPaused THEN prev
    ELSE LET newY == prev.position.y + 1
         IN  IF canMove(prev.board, prev.currentPiece, prev.position.x, newY)
             THEN [prev EXCEPT !.position.y = newY]
             ELSE LET placed == placePiece(prev.board, prev.currentPiece,
                                           prev.position.x, prev.position.y,
                                           prev.currentColor)
                      cleared == clearLines(placed)
                      newBoard == cleared[1]
                      linesCleared == cleared[2]
                      newLines == prev.lines + linesCleared
                  IN  IF ~canMove(newBoard, prev.nextPiece, 3, 0)
                      THEN [prev EXCEPT !.gameOver = TRUE]
                      ELSE [prev EXCEPT
                              !.board = newBoard,
                              !.currentPiece = prev.nextPiece,
                              !.currentColor = prev.nextColor,
                              !.position = [x |-> 3, y |-> 0],
                              !.score = prev.score + scoreIncrease(linesCleared),
                              !.lines = newLines,
                              !.level = newLevel(newLines),
                              !.nextPiece = getRandomPiece(index1)[1],
                              !.nextColor = getRandomPiece(index2)[2]]

\* The updaters of handleKeyDown's ArrowLeft / ArrowRight (dx = -1 / 1).
keyShift(prev, dx) ==
    LET newX == prev.position.x + dx
    IN  IF canMove(prev.board, prev.currentPiece, newX, prev.position.y)
        THEN [prev EXCEPT !.position.x = newX]
        ELSE prev

\* The updater of ArrowUp.
keyRotate(prev) ==
    LET rotated == rotatePiece(prev.currentPiece)
    IN  IF canMove(prev.board, rotated, prev.position.x, prev.position.y)
        THEN [prev EXCEPT !.currentPiece = rotated]
        ELSE prev

\* The updater of the space key.
keyPause(prev) == [prev EXCEPT !.isPaused = ~prev.isPaused]

\* resetGame, and the initializer of useState; index1 is drawn first (nextPiece).
resetGame(index1, index2) ==
    [board |-> simpleCreateEmptyBoard,
     currentPiece |-> getRandomPiece(index2)[1],
     currentColor |-> getRandomPiece(index2)[2],
     nextPiece |-> getRandomPiece(index1)[1],
     nextColor |-> getRandomPiece(index1)[2],
     position |-> [x |-> 3, y |-> 0],
     score |-> 0, lines |-> 0, level |-> 1,
     gameOver |-> FALSE, isPaused |-> FALSE]

\* The useState initializers of part_000 (the Ready state).
initialHooks(key1, key2) ==
    [board |-> createEmptyBoard,
     currentPiece |-> [type |-> key1, shape |-> TETROMINOES[key1].shape,
                       color |-> TETROMINOES[key1].color,
                       pos |-> [x |-> Floor2(BOARD_WIDTH) - 1, y |-> 0]],
     nextPiece |-> randomTetromino(key2),
     score |-> 0, lines |-> 0, level |-> 1,
     gameOver |-> FALSE, isPaused |-> FALSE, gameStarted |-> FALSE]

\* ------------------------------------------- sessions in progress
\* A session in progress is the state a fixed list of placements leaves: each
\* placement is played with the component's own handlers (rotate `rot` times,
\* shift to column x, drop), and the random draws are the listed pieces.

RECURSIVE kickRotateTimes(_, _)
kickRotateTimes(s, n) == IF n = 0 THEN s ELSE kickRotateTimes(rotate(s, s), n - 1)

RECURSIVE kickShiftTo(_, _)
kickShiftTo(s, x) ==
    IF s.currentPiece.pos.x = x THEN s
    ELSE LET m == move(s, s, IF x < s.currentPiece.pos.x THEN -1 ELSE 1, 0)
         IN  IF m.ret THEN kickShiftTo(m.s, x) ELSE s

\* keys[i] is the piece of the i-th placement; keys has two more entries than
\* script: the active and the queued piece the play ends with.
RECURSIVE kickPlay(_, _, _, _)
kickPlay(s, script, keys, i) ==
    IF i > Len(script) \/ s.gameOver THEN s
    ELSE LET placed == kickShiftTo(kickRotateTimes(s, script[i].rot), script[i].x)
         IN  kickPlay(hardDrop(placed, placed, keys[i + 2]), script, keys, i + 1)

RECURSIVE simpleRotateTimes(_, _)
simpleRotateTimes(prev, n) ==
    IF n = 0 THEN prev ELSE simpleRotateTimes(keyRotate(prev), n - 1)

RECURSIVE simpleShiftTo(_, _)
simpleShiftTo(prev, x) ==
    IF prev.position.x = x THEN prev
    ELSE LET m == keyShift(prev, IF x < prev.position.x THEN -1 ELSE 1)
         IN  IF m = prev THEN prev ELSE simpleShiftTo(m, x)

RECURSIVE simpleSettle(_, _)
simpleSettle(prev, index) ==
    IF moveDownLocks(prev) \/ prev.gameOver \/ prev.isPaused
    THEN moveDown(prev, index, index)
    ELSE simpleSettle(moveDown(prev, index, index), index)

RECURSIVE simplePlay(_, _, _, _)
simplePlay(prev, script, keys, i) ==
    IF i > Len(script) \/ prev.gameOver THEN prev
    ELSE LET placed == simpleShiftTo(simpleRotateTimes(prev, script[i].rot), script[i].x)
         IN  simplePlay(simpleSettle(placed, keys[i + 2]), script, keys, i + 1)

\* Placements: a vertical I in column col, a horizontal I whose left cell is in
\* column col, a T (point up) whose left cell is in column col.
kickVI(col) == [type |-> "I", rot |-> 1, x |-> col - 2]
kickHI(col) == [type |-> "I", rot |-> 0, x |-> col]
kickT(col) == [type |-> "T", rot |-> 0, x |-> col]
simpleVI(col) == [type |-> 0, rot |-> 1, x |-> col]
simpleHI(col) == [type |-> 0, rot |-> 0, x |-> col]
simpleT(col) == [type |-> 6, rot |-> 0, x |-> col]

\* n times ten vertical I pieces side by side: 4n rows cleared, the board empty.
kickTetris(n) == [i \in 1..(10 * n) |-> kickVI((i - 1) % 10)]
simpleTetris(n) == [i \in 1..(10 * n) |-> simpleVI((i - 1) % 10)]

\* Vertical I pieces on the columns from..9, `layers` high.
kickStack(from, layers) ==
    [i \in 1..((10 - from) * layers) |-> kickVI(from + ((i - 1) % (10 - from)))]
simpleStack(from, layers) ==
    [i \in 1..((10 - from) * layers) |-> simpleVI(from + ((i - 1) % (10 - from)))]

\* A vertical I on column 1 and four rows of two horizontal I pieces on
\* columns 2..9: four rows of columns 1..9.
kickLedgeLayer == <<kickVI(1), kickHI(2), kickHI(6), kickHI(2), kickHI(6),
                    kickHI(2), kickHI(6), kickHI(2), kickHI(6)>>
simpleLedgeLayer == <<simpleVI(1), simpleHI(2), simpleHI(6), simpleHI(2), simpleHI(6),
                      simpleHI(2), simpleHI(6), simpleHI(2), simpleHI(6)>>

\* Columns 1..8 of the bottom row, three ledge layers (rows 7..18; the bottom
\* row keeps a hole in column 9 under the overhang), and columns 2..9 of
\* rows 4..6.
kickLedge ==
    <<kickHI(1), kickHI(5)>> \o kickLedgeLayer \o kickLedgeLayer \o kickLedgeLayer
        \o <<kickHI(2), kickHI(6), kickHI(2), kickHI(6), kickHI(2), kickHI(6)>>
simpleLedge ==
    <<simpleHI(1), simpleHI(5)>> \o simpleLedgeLayer \o simpleLedgeLayer
        \o simpleLedgeLayer
        \o <<simpleHI(2), simpleHI(6), simpleHI(2), simpleHI(6), simpleHI(2), simpleHI(6)>>

\* The placement lists, played from `base`:
\*   "well1": columns 1..9 filled from row 4 down, after 16 cleared rows;
\*   "well3": the ledge stack, after 16 cleared rows;
\*   "tower": columns 1..9 filled from row 4 down and a T (point up) under the spawn,
\*            in a new game.
ClearedBefore == 4

kickScript(name) ==
    CASE name = "well1" -> kickStack(1, 4)
      [] name = "well3" -> kickLedge
      [] name = "tower" -> kickStack(1, 4) \o <<kickT(3)>>

simpleScript(name) ==
    CASE name = "well1" -> simpleStack(1, 4)
      [] name = "well3" -> simpleLedge
      [] name = "tower" -> simpleStack(1, 4) \o <<simpleT(3)>>

Sessions == {"well1", "well3", "tower"}

kickKeys(script) == [i \in 1..Len(script) |-> script[i].type]
simpleKeys(script) == [i \in 1..Len(script) |-> script[i].type]

\* The game after ClearedBefore times four cleared rows, an I active and queued.
kickCleared ==
    kickPlay(startGame(initialHooks("I", "I"), "I", "I"), kickTetris(ClearedBefore),
             kickKeys(kickTetris(ClearedBefore)) \o <<"I", "I">>, 1)

simpleCleared ==
    simplePlay(resetGame(0, 0), simpleTetris(ClearedBefore),
               simpleKeys(simpleTetris(ClearedBefore)) \o <<0, 0>>, 1)

\* The state after all but the last two placements of each list.
kickPrefixOf(name, base) ==
    LET script == kickScript(name)
    IN  kickPlay(base, SubSeq(script, 1, Len(script) - 2), kickKeys(script), 1)

kickPrefix ==
    [well1 |-> kickPrefixOf("well1", kickCleared),
     well3 |-> kickPrefixOf("well3", kickCleared),
     tower |-> kickPrefixOf("tower", startGame(initialHooks("I", "I"), "I", "I"))]

simplePrefixOf(name, base) ==
    LET script == simpleScript(name)
    IN  simplePlay(base, SubSeq(script, 1, Len(script) - 2), simpleKeys(script), 1)

simplePrefix ==
    [well1 |-> simplePrefixOf("well1", simpleCleared),
     well3 |-> simplePrefixOf("well3", simpleCleared),
     tower |-> simplePrefixOf("tower", resetGame(0, 0))]

\* The session `name` with key1 drawn as its active and key2 as its queued piece.
kickSession(name, key1, key2) ==
    LET script == kickScript(name)
    IN  kickPlay(kickPrefix[name], script, kickKeys(script) \o <<key1, key2>>,
                 Len(script) - 1)

simpleSession(name, index1, index2) ==
    LET script == simpleScript(name)
    IN  simplePlay(simplePrefix[name], script, simpleKeys(script) \o <<index1, index2>>,
                   Len(script) - 1)

\* ------------------------------------------------------ history
\* last: what the last handler did, for the properties that speak of it.
\*   op "lock": how is "drop" (drop() of the timer or the down button, and
\*              moveDown()), "soft" (the ArrowDown key of part_000) or "hard"
\*              (hardDrop), cleared the rows the lock cleared, row the piece's
\*              pos.y when it was written;
\*   op "kick": a rotate() that left the plain rotation, how is its branch;
\*   op "none": anything else.
NoLast == [op |-> "none", how |-> "", cleared |-> 0, row |-> 0]

fullRows(b, empty) == Cardinality({r \in 1..Len(b) : \A x \in 1..Len(b[r]) : b[r][x] # empty})

\* Hook values of the component that is not mounted (never read).
idleHooks == initialHooks("I", "I")
idleGameState == resetGame(0, 0)

SetHooks(t) ==
    /\ board = t.board
    /\ currentPiece = t.currentPiece
    /\ nextPiece = t.nextPiece
    /\ score = t.score
    /\ lines = t.lines
    /\ level = t.level
    /\ gameOver = t.gameOver
    /\ isPaused = t.isPaused
    /\ gameStarted = t.gameStarted

\* The Math.random draws of the handlers the runs take (the active piece of an
\* initial position is any of the seven).
DrawKeys == {"I", "O"}
DrawIndexes == {0, 1}

\* The draws a handler consumes: none matter unless it spawns.
kickDraws(spawns) == IF spawns THEN DrawKeys ELSE {"I"}
simpleDraws(spawns) == IF spawns THEN DrawIndexes ELSE {0}

\* ------------------------------------------------------- the timers
\* Math.max(100, 800 * Math.pow(0.9, level - 1)) as the fraction
\* <<numerator, denominator>>, or <<>> for null.
tickRate(c) ==
    IF tickRateSet(c)
    THEN IF 800 * 9 ^ (c.level - 1) < 100 * 10 ^ (c.level - 1)
         THEN <<100, 1>>
         ELSE <<800 * 9 ^ (c.level - 1), 10 ^ (c.level - 1)>>
    ELSE <<>>

\* A variant of useInterval whose effect returns no cleanup.
useIntervalNoCleanup(ts, oldDelay, delay) ==
    IF oldDelay = delay THEN ts
    ELSE IF delay # <<>> THEN Append(ts, delay) ELSE ts

\* The second effect of useInterval after a render: when delay changed, the
\* cleanup of the previous run clears the interval it created (the last one),
\* then a new interval is created unless delay is null.  oldDelay is <<>> at
\* the mount.
useInterval(ts, oldDelay, delay) ==
    IF oldDelay = delay THEN ts
    ELSE LET cleared == IF oldDelay # <<>> THEN SubSeq(ts, 1, Len(ts) - 1) ELSE ts
         IN  IF delay # <<>> THEN Append(cleared, delay) ELSE cleared

\* script.js: the delay of the interval.
getGameSpeed(g) == IF 500 - g.level * 30 < 100 THEN 100 ELSE 500 - g.level * 30

\* script.js: the interval effect after a render from prev to t.  moveDown
\* never changes, getGameSpeed changes with gameState.level; the cleanup clears
\* the interval of the previous run, then a new one is created.
intervalEffect(ts, prev, t) ==
    IF prev.level = t.level THEN ts
    ELSE Append(SubSeq(ts, 1, Len(ts) - 1), getGameSpeed(t))

\* The intervals after the mount effects.
MountedTimers ==
    timers = IF mounted = "part_000"
             THEN useInterval(<<>>, <<>>, tickRate(Hooks))
             ELSE <<getGameSpeed(gameState)>>

\* part_000 as mounted (Ready), or with a session in progress.
InitKick ==
    /\ mounted = "part_000"
    /\ \E key1 \in TETROMINO_KEYS, key2 \in DrawKeys :
         \/ SetHooks(initialHooks(key1, key2))
         \/ \E name \in Sessions : SetHooks(kickSession(name, key1, key2))
    /\ gameState = idleGameState
    /\ MountedTimers
    /\ last = NoLast
    /\ used = 0

\* script.js as mounted, or with a session in progress.
InitSimple ==
    /\ mounted = "script"
    /\ \E index1 \in DrawIndexes, index2 \in PieceIndexes :
         \/ gameState = resetGame(index1, index2)
         \/ \E name \in Sessions :
              gameState = simpleSession(name, index2, index1)
    /\ SetHooks(idleHooks)
    /\ MountedTimers
    /\ last = NoLast
    /\ used = 0

Init == InitKick \/ InitSimple

\* Handlers of a running game are explored while the horizon is not used up.
InHorizon == used < Horizon

\* ------------------------------------------- part_000: events
KickEvent(t, l, n) ==
    /\ mounted = "part_000"
    /\ Commit(t)
    /\ timers' = useInterval(timers, tickRate(Hooks), tickRate(t))
    /\ last' = l
    /\ used' = used + n
    /\ UNCHANGED <<mounted, gameState>>

\* handleKeyPress returns at once when gameOver || !gameStarted.
keyIgnored(c) == c.gameOver \/ ~c.gameStarted

\* handleKeyPress: the switch runs only when !isPaused.
keySwitch(c) == ~keyIgnored(c) /\ ~c.isPaused

\* ArrowLeft / ArrowRight keys and the on-screen left / right buttons.
MoveLeft ==
    /\ mounted = "part_000"
    /\ InHorizon \/ Rejects(Hooks)
    /\ KickEvent(move(Hooks, Hooks, -1, 0).s, NoLast, 0)

MoveRight ==
    /\ mounted = "part_000"
    /\ InHorizon \/ Rejects(Hooks)
    /\ KickEvent(move(Hooks, Hooks, 1, 0).s, NoLast, 0)

kickRecord(c) ==
    IF Rejects(c) \/ rotateKick(c) = "x" THEN NoLast
    ELSE [op |-> "kick", how |-> rotateKick(c), cleared |-> 0, row |-> 0]

\* ArrowUp key and the on-screen rotate button.
Rotate ==
    /\ mounted = "part_000"
    /\ InHorizon \/ Rejects(Hooks)
    /\ KickEvent(rotate(Hooks, Hooks), kickRecord(Hooks), 0)

lockRecord(c, how, nextBoardState, row) ==
    [op |-> "lock", how |-> how, cleared |-> fullRows(nextBoardState, Null), row |-> row]

dropSpawns(c) == ~Rejects(c) /\ dropLocks(c)

dropRecord(c, how) ==
    IF dropSpawns(c)
    THEN lockRecord(c, how, Merge(c.board, c.currentPiece, c.currentPiece.pos.x,
                                  c.currentPiece.pos.y), c.currentPiece.pos.y)
    ELSE NoLast

\* The interval callback of useInterval, called by a live interval: drop().
Tick ==
    /\ mounted = "part_000"
    /\ timers # <<>>
    /\ InHorizon
    /\ \E key \in kickDraws(dropSpawns(Hooks)) :
         KickEvent(drop(Hooks, Hooks, key), dropRecord(Hooks, "drop"),
                   IF dropSpawns(Hooks) THEN 1 ELSE 0)

\* The on-screen down button: drop().
ButtonDown ==
    /\ mounted = "part_000"
    /\ InHorizon \/ Rejects(Hooks)
    /\ \E key \in kickDraws(dropSpawns(Hooks)) :
         KickEvent(drop(Hooks, Hooks, key), dropRecord(Hooks, "drop"),
                   IF dropSpawns(Hooks) THEN 1 ELSE 0)

\* The ArrowDown key: drop(); setScore(s => s + 1).
KeyArrowDown ==
    /\ mounted = "part_000"
    /\ InHorizon \/ Rejects(Hooks)
    /\ \E key \in kickDraws(dropSpawns(Hooks)) :
         LET t == drop(Hooks, Hooks, key)
         IN  KickEvent(IF keySwitch(Hooks) THEN [t EXCEPT !.score = t.score + 1] ELSE Hooks,
                       dropRecord(Hooks, "soft"),
                       IF dropSpawns(Hooks) THEN 1 ELSE 0)

\* The space key and the on-screen DROP button: hardDrop().
HardDrop ==
    /\ mounted = "part_000"
    /\ InHorizon \/ Rejects(Hooks)
    /\ \E key \in kickDraws(~Rejects(Hooks)) :
         KickEvent(hardDrop(Hooks, Hooks, key),
                   IF Rejects(Hooks) THEN NoLast
                   ELSE lockRecord(Hooks, "hard", hardDropLockedBoard(Hooks),
                                   hardDropFinalY(Hooks)),
                   IF Rejects(Hooks) THEN 0 ELSE 1)

\* The p / P key: setIsPaused(prev => !prev), behind handleKeyPress's guard.
KeyP ==
    /\ mounted = "part_000"
    /\ InHorizon \/ keyIgnored(Hooks)
    /\ KickEvent(IF keyIgnored(Hooks) THEN Hooks
                 ELSE [Hooks EXCEPT !.isPaused = ~Hooks.isPaused], NoLast, 0)

\* The on-screen pause button: setIsPaused(p => !p).
ButtonPause ==
    /\ mounted = "part_000"
    /\ InHorizon \/ keyIgnored(Hooks)
    /\ KickEvent([Hooks EXCEPT !.isPaused = ~Hooks.isPaused], NoLast, 0)

\* The Resume button of the overlay, rendered when !gameOver && isPaused.
ButtonResume ==
    /\ mounted = "part_000"
    /\ ~gameOver /\ isPaused
    /\ KickEvent([Hooks EXCEPT !.isPaused = FALSE], NoLast, 0)

\* START GAME / Play Again of the overlay, rendered when gameOver, or when
\* !gameStarted && !isPaused.
ButtonStart ==
    /\ mounted = "part_000"
    /\ gameOver \/ (~gameStarted /\ ~isPaused)
    /\ \E key1 \in DrawKeys, key2 \in DrawKeys :
         KickEvent(startGame(Hooks, key1, key2), NoLast, 1)

\* ------------------------------------------- script.js: events
SimpleEvent(t, l, n) ==
    /\ mounted = "script"
    /\ gameState' = t
    /\ timers' = intervalEffect(timers, gameState, t)
    /\ last' = l
    /\ used' = used + n
    /\ UNCHANGED <<mounted, board, currentPiece, nextPiece, score, lines, level,
                   gameOver, isPaused, gameStarted>>

simpleIdle(g) == g.gameOver \/ g.isPaused

\* A variant of keyDownReturns that never returns early.
keyDownNeverReturns(c) == FALSE

\* handleKeyDown returns at once when gameState.gameOver.
keyDownReturns(c) == c.gameOver

moveDownSpawns(prev) == ~simpleIdle(prev) /\ moveDownLocks(prev)

moveDownRecord(prev, how) ==
    IF moveDownSpawns(prev)
    THEN [op |-> "lock", how |-> how,
          cleared |-> clearLines(placePiece(prev.board, prev.currentPiece,
                                            prev.position.x, prev.position.y,
                                            prev.currentColor))[2],
          row |-> prev.position.y]
    ELSE NoLast

\* The setInterval callback, called by a live interval: moveDown().
SimpleTick ==
    /\ mounted = "script"
    /\ timers # <<>>
    /\ InHorizon \/ simpleIdle(gameState)
    /\ \E index1 \in simpleDraws(moveDownSpawns(gameState)),
          index2 \in simpleDraws(moveDownSpawns(gameState)) :
         SimpleEvent(moveDown(gameState, index1, index2),
                     moveDownRecord(gameState, "drop"),
                     IF moveDownSpawns(gameState) THEN 1 ELSE 0)

\* ArrowDown: moveDown().
SimpleArrowDown ==
    /\ mounted = "script"
    /\ InHorizon \/ simpleIdle(gameState)
    /\ \E index1 \in simpleDraws(moveDownSpawns(gameState)),
          index2 \in simpleDraws(moveDownSpawns(gameState)) :
         IF keyDownReturns(gameState)
         THEN SimpleEvent(gameState, NoLast, 0)
         ELSE SimpleEvent(moveDown(gameState, index1, index2),
                          moveDownRecord(gameState, "drop"),
                          IF moveDownSpawns(gameState) THEN 1 ELSE 0)

SimpleArrowLeft ==
    /\ mounted = "script"
    /\ InHorizon \/ gameState.gameOver
    /\ SimpleEvent(IF keyDownReturns(gameState) THEN gameState ELSE keyShift(gameState, -1),
                   NoLast, 0)

SimpleArrowRight ==
    /\ mounted = "script"
    /\ InHorizon \/ gameState.gameOver
    /\ SimpleEvent(IF keyDownReturns(gameState) THEN gameState ELSE keyShift(gameState, 1),
                   NoLast, 0)

SimpleArrowUp ==
    /\ mounted = "script"
    /\ InHorizon \/ gameState.gameOver
    /\ SimpleEvent(IF keyDownReturns(gameState) THEN gameState ELSE keyRotate(gameState),
                   NoLast, 0)

\* The space key.
SimpleSpace ==
    /\ mounted = "script"
    /\ InHorizon \/ gameState.gameOver
    /\ SimpleEvent(IF keyDownReturns(gameState) THEN gameState ELSE keyPause(gameState),
                   NoLast, 0)

\* Play Again (rendered when gameOver) and New Game (rendered when
\* !gameOver && !isPaused): resetGame().
SimpleReset ==
    /\ mounted = "script"
    /\ gameState.gameOver \/ ~gameState.isPaused
    /\ InHorizon \/ gameState.gameOver
    /\ \E index1 \in DrawIndexes, index2 \in DrawIndexes :
         SimpleEvent(resetGame(index1, index2), NoLast, 1)

Next ==
    \/ MoveLeft
    \/ MoveRight
    \/ Rotate
    \/ Tick
    \/ ButtonDown
    \/ KeyArrowDown
    \/ HardDrop
    \/ KeyP
    \/ ButtonPause
    \/ ButtonResume
    \/ ButtonStart
    \/ SimpleTick
    \/ SimpleArrowDown
    \/ SimpleArrowLeft
    \/ SimpleArrowRight
    \/ SimpleArrowUp
    \/ SimpleSpace
    \/ SimpleReset

Spec == Init /\ [][Next]_vars

\* =========================================================== properties
Kick == mounted = "part_000"

\* The status of the session.
KickStatus ==
    IF gameOver THEN "GameOver"
    ELSE IF ~gameStarted THEN "Ready"
    ELSE IF isPaused THEN "Paused"
    ELSE "Running"

SimpleStatus ==
    IF gameState.gameOver THEN "GameOver"
    ELSE IF gameState.isPaused THEN "Paused"
    ELSE "Running"

Status == IF Kick THEN KickStatus ELSE SimpleStatus

PausedFlag == IF Kick THEN isPaused ELSE gameState.isPaused

GameOverFlag == IF Kick THEN gameOver ELSE gameState.gameOver

\* Board, active piece (shape and position), score, lines and level.
PlayFrame ==
    IF Kick THEN <<board, currentPiece, score, lines, level>>
    ELSE <<gameState.board, gameState.currentPiece, gameState.currentColor,
           gameState.position, gameState.score, gameState.lines, gameState.level>>

NextFrame ==
    IF Kick THEN nextPiece ELSE <<gameState.nextPiece, gameState.nextColor>>

\* The hook values of the mounted component.
Session == IF Kick THEN Hooks ELSE gameState

\* The scoring table of the specification, by rows cleared + 1.
SpecMultiplier == <<0, 100, 300, 500, 800>>

\* ----------------------------------------------------------------- C1
BoardShape(b) == Len(b) = 20 /\ \A r \in 1..Len(b) : Len(b[r]) = 10

\* C1: in both implementations, in every reachable state the board has exactly
\* 20 rows and every row has exactly 10 cells.
C1_BoardShape == BoardShape(IF Kick THEN board ELSE gameState.board)

\* A lock of script.js that cleared three rows has happened.
C1_Witness == mounted = "script" /\ last.op = "lock" /\ last.cleared = 3

\* ----------------------------------------------------------------- C2
\* C2: in part_000 a lock that clears k rows at level L changes the score by
\* exactly m[k] * L, L being the level before the lock (the ArrowDown key adds
\* its own point on top).
C2_LockScore ==
    [][(Kick /\ last'.op = "lock") =>
          score' = score + SpecMultiplier[last'.cleared + 1] * level
                         + (IF last'.how = "soft" THEN 1 ELSE 0)]_vars

\* A part_000 lock at level 2 that cleared three rows has happened.
C2_Witness == Kick /\ last.op = "lock" /\ last.cleared = 3 /\ lines = 19 /\ level = 2

\* ----------------------------------------------------------------- C3
\* C3: in script.js a lock by moveDown that clears 1, 2, 3 or 4 rows at level L
\* adds exactly 100L, 300L, 500L or 800L to the score.
C3_SimpleLockScore ==
    [][(~Kick /\ last'.op = "lock" /\ last'.cleared >= 1) =>
          gameState'.score =
              gameState.score + SpecMultiplier[last'.cleared + 1] * gameState.level]_vars

\* ----------------------------------------------------------------- C4
\* C4: in script.js a lock by moveDown that clears no row leaves the score
\* unchanged.
C4_SimpleLockNoRow ==
    [][(~Kick /\ last'.op = "lock" /\ last'.cleared = 0) =>
          gameState'.score = gameState.score]_vars

KickRunning == Kick /\ KickStatus = "Running"

\* The matrix turned clockwise: row i of the result is column i read upwards.
Clockwise(m) == [i \in 1..Len(m[1]) |-> [j \in 1..Len(m) |-> m[Len(m) + 1 - j][i]]]

Fits(shape, x, y) == ~checkCollision([x |-> x, y |-> y], shape, board)

\* The piece the wall-kick rule asks for: the clockwise shape at x, else at
\* x - 1, else at x + 1, else the piece as it is.
WallKicked ==
    LET turned == Clockwise(currentPiece.shape)
        x == currentPiece.pos.x
        y == currentPiece.pos.y
    IN  IF Fits(turned, x, y) THEN [currentPiece EXCEPT !.shape = turned]
        ELSE IF Fits(turned, x - 1, y)
             THEN [currentPiece EXCEPT !.shape = turned, !.pos.x = x - 1]
        ELSE IF Fits(turned, x + 1, y)
             THEN [currentPiece EXCEPT !.shape = turned, !.pos.x = x + 1]
        ELSE currentPiece

\* C6: in part_000, rotate in a Running state adopts the clockwise shape at the
\* first of x, x - 1, x + 1 that does not collide, and changes nothing (and
\* nothing else in any case) when all three collide.
C6_WallKick ==
    KickRunning => rotate(Hooks, Hooks) = [Hooks EXCEPT !.currentPiece = WallKicked]

\* A rotation that failed at x and at x - 1 and was taken at x + 1 has happened.
C6_Witness == Kick /\ last.op = "kick" /\ last.how = "right"

\* ----------------------------------------------------------------- C7
\* C7: in part_000, in every reachable Running state the row of the ghost
\* projection is the row at which hardDrop writes the piece into the board.
C7_GhostRow ==
    KickRunning =>
        /\ displayGhostY(Hooks) = hardDropFinalY(Hooks)
        /\ hardDropLockedBoard(Hooks)
               = Merge(board, currentPiece, currentPiece.pos.x, displayGhostY(Hooks))

\* A hard drop that took the piece down by more than four rows has happened.
C7_Witness == Kick /\ last.op = "lock" /\ last.how = "hard" /\ last.row > 4

\* ----------------------------------------------------------------- C8
\* C8: in both implementations, once the game-over flag is set every handler
\* other than reset/start (which begins a new game, counted by `used`) leaves
\* the board, the active piece, the next piece, score, lines and level
\* unchanged.
C8_GameOverFrame ==
    [][(GameOverFlag /\ used' = used) =>
          (PlayFrame' = PlayFrame /\ NextFrame' = NextFrame /\ GameOverFlag')]_vars

\* A key was handled by script.js after the game was over.
C8_Witness == mounted = "script" /\ gameState.gameOver /\ last.op = "none"

\* ----------------------------------------------------------------- C9
\* C9: in both implementations, while the session is paused every handler other
\* than reset leaves the board, the active piece, score, lines and level
\* unchanged.
C9_PausedFrame ==
    [][(Status = "Paused" /\ used' = used) => PlayFrame' = PlayFrame]_vars

\* ---------------------------------------------------------------- C10
StatusSteps ==
    {<<"Ready", "Running">>, <<"Running", "Paused">>, <<"Paused", "Running">>,
     <<"Running", "GameOver">>, <<"GameOver", "Running">>}

\* C10: the status follows only Ready -> Running, Running <-> Paused,
\* Running -> GameOver and reset/start into Running; the paused flag becomes
\* true only from Running; in Ready and GameOver nothing but reset/start changes
\* the session.
C10_StatusSteps ==
    [][/\ Status' # Status => <<Status, Status'>> \in StatusSteps
       /\ (PausedFlag' /\ ~PausedFlag) => Status = "Running"
       /\ (Status \in {"Ready", "GameOver"} /\ used' = used) => Session' = Session]_vars

\* ---------------------------------------------------------------- C11
\* The line-clear score of a part_000 step: m[k] * level when it locked.
ClearPoints ==
    IF last'.op = "lock" THEN SpecMultiplier[last'.cleared + 1] * level ELSE 0

\* C11: in part_000 every soft drop the player issues in Running, by the
\* ArrowDown key or by the on-screen down button, adds exactly 1 to the score
\* on top of the line-clear score, whether it moves the piece or locks it; the
\* gravity tick adds none.
C11_SoftDropPoint ==
    [][/\ (KickRunning /\ (KeyArrowDown \/ ButtonDown)) => score' = score + ClearPoints + 1
       /\ (KickRunning /\ Tick /\ ~ButtonDown) => score' = score + ClearPoints]_vars

\* ---------------------------------------------------------------- C12
\* A step of reset/start: it begins a new game (counted by `used`) and is no
\* lock.
StartStep == used' = used + 1 /\ last'.op = "none"

KickCatalogue == {randomTetromino(key) : key \in TETROMINO_KEYS}

\* The session of a game that has just begun (the column of the spawn position
\* is the subject of C17).
KickFresh ==
    /\ board = [r \in 1..20 |-> [x \in 1..10 |-> Null]]
    /\ score = 0 /\ lines = 0 /\ level = 1
    /\ ~gameOver /\ ~isPaused /\ gameStarted
    /\ currentPiece.pos.y = 0
    /\ [type |-> currentPiece.type, shape |-> currentPiece.shape,
        color |-> currentPiece.color] \in KickCatalogue
    /\ nextPiece \in KickCatalogue

SimpleFresh ==
    /\ gameState.board = [r \in 1..20 |-> [x \in 1..10 |-> 0]]
    /\ gameState.score = 0 /\ gameState.lines = 0 /\ gameState.level = 1
    /\ ~gameState.gameOver /\ ~gameState.isPaused
    /\ gameState.position.y = 0
    /\ \E i \in PieceIndexes :
         gameState.currentPiece = PIECES[i] /\ gameState.currentColor = i
    /\ \E i \in PieceIndexes : gameState.nextPiece = PIECES[i] /\ gameState.nextColor = i

Fresh == IF Kick THEN KickFresh ELSE SimpleFresh

ActiveShape == IF Kick THEN currentPiece.shape ELSE gameState.currentPiece
ActiveX == IF Kick THEN currentPiece.pos.x ELSE gameState.position.x
ActiveY == IF Kick THEN currentPiece.pos.y ELSE gameState.position.y
Stack == IF Kick THEN board ELSE gameState.board
Vacant(cell) == IF Kick THEN cell = Null ELSE cell = 0

\* A piece collides at (x, y): one of its cells is left of column 0, right of
\* column 9, below row 19, or on an occupied cell of the board.
CollidesAt(shape, x, y) ==
    \E i \in 1..Len(shape) : \E j \in 1..Len(shape[i]) :
        /\ shape[i][j] # 0
        /\ \/ x + j - 1 < 0
           \/ x + j - 1 > 9
           \/ y + i - 1 > 19
           \/ y + i - 1 >= 0 /\ ~Vacant(Stack[y + i][x + j])

Blocked(dx, dy) == CollidesAt(ActiveShape, ActiveX + dx, ActiveY + dy)

KickMoves(dx, dy) ==
    LET m == move(Hooks, Hooks, dx, dy)
        there == [x |-> currentPiece.pos.x + dx, y |-> currentPiece.pos.y + dy]
    IN  /\ m.s = IF Blocked(dx, dy) THEN Hooks
                 ELSE [Hooks EXCEPT !.currentPiece.pos = there]
        /\ m.ret = (m.s.currentPiece.pos # currentPiece.pos)

KickFalls ==
    \A key \in DrawKeys :
        LET t == drop(Hooks, Hooks, key)
            there == [x |-> currentPiece.pos.x, y |-> currentPiece.pos.y + 1]
        IN  IF Blocked(0, 1) THEN t.currentPiece.pos # there
            ELSE t = [Hooks EXCEPT !.currentPiece.pos = there]

SimpleMoves(dx) ==
    keyShift(gameState, dx) =
        IF Blocked(dx, 0) THEN gameState
        ELSE [gameState EXCEPT !.position.x = gameState.position.x + dx]

SimpleFalls ==
    \A index1 \in DrawIndexes, index2 \in DrawIndexes :
        LET t == moveDown(gameState, index1, index2)
            there == [x |-> gameState.position.x, y |-> gameState.position.y + 1]
        IN  IF Blocked(0, 1) THEN t.position # there
            ELSE t = [gameState EXCEPT !.position = there]

\* C13: in both implementations a horizontal or downward move request in
\* Running changes the position to the requested offset exactly when the
\* destination does not collide; a horizontal move that collides leaves the
\* whole session unchanged; move of part_000 returns true exactly when the
\* position changed.
C13_MoveIffFree ==
    Status = "Running" =>
        IF Kick
        THEN KickMoves(-1, 0) /\ KickMoves(1, 0) /\ KickMoves(0, 1) /\ KickFalls
        ELSE SimpleMoves(-1) /\ SimpleMoves(1) /\ SimpleFalls

\* The piece of script.js was moved right from its spawn column until the wall
\* or the stack stopped it.
C13_Witness ==
    /\ ~Kick /\ Status = "Running" /\ used = 0
    /\ gameState.position.x > 3
    /\ Blocked(1, 0)

\* ---------------------------------------------------------------- C14
\* The rotation functions on their own: a catalogue shape is turned MaxTurns
\* times, with no board in the way; `used` counts the turns.
MaxTurns == 8

InitTurns ==
    /\ \/ /\ mounted = "part_000"
          /\ \E key \in TETROMINO_KEYS : SetHooks(initialHooks(key, "I"))
          /\ gameState = idleGameState
       \/ /\ mounted = "script"
          /\ \E index \in PieceIndexes : gameState = resetGame(0, index)
          /\ SetHooks(idleHooks)
    /\ MountedTimers
    /\ last = NoLast
    /\ used = 0

TurnKick ==
    /\ mounted = "part_000"
    /\ used < MaxTurns
    /\ currentPiece' = [currentPiece EXCEPT !.shape = rotateMatrix(currentPiece.shape)]
    /\ used' = used + 1
    /\ UNCHANGED <<mounted, board, nextPiece, score, lines, level, gameOver,
                   isPaused, gameStarted, gameState, timers, last>>

TurnSimple ==
    /\ mounted = "script"
    /\ used < MaxTurns
    /\ gameState' = [gameState EXCEPT !.currentPiece = rotatePiece(gameState.currentPiece)]
    /\ used' = used + 1
    /\ UNCHANGED <<mounted, kickVars, timers, last>>

NextTurns == TurnKick \/ TurnSimple

SpecTurns == InitTurns /\ [][NextTurns]_vars

\* C14: for each of the seven catalogue shapes of each implementation, the
\* rotation applied four times returns the original matrix.
C14_FourTurns ==
    used % 4 = 0 =>
        ActiveShape = IF Kick THEN TETROMINOES[currentPiece.type].shape
                      ELSE PIECES[gameState.currentColor]

\* The S of script.js has been turned four times.
C14_Witness == ~Kick /\ used = 4 /\ gameState.currentColor = 2

\* ---------------------------------------------------------------- C15
\* The spawns onto an empty board: the first piece of a game, and the piece
\* that follows a lock clearing the whole board.  Such a lock is the tenth
\* vertical I of a layer: nine stand on columns 0..8, the active I is turned
\* and stands over column 9, any of the seven pieces is queued.
kickGapScript == [i \in 1..9 |-> kickVI(i - 1)]
simpleGapScript == [i \in 1..9 |-> simpleVI(i - 1)]

kickGap(key2) ==
    LET s == kickPlay(kickCleared, kickGapScript,
                      kickKeys(kickGapScript) \o <<"I", key2>>, 1)
    IN  kickShiftTo(kickRotateTimes(s, 1), 7)

simpleGap(index2) ==
    LET prev == simplePlay(simpleCleared, simpleGapScript,
                           simpleKeys(simpleGapScript) \o <<0, index2>>, 1)
    IN  simpleShiftTo(simpleRotateTimes(prev, 1), 9)

InitSpawn ==
    /\ \/ /\ mounted = "part_000"
          /\ \E key1 \in TETROMINO_KEYS, key2 \in TETROMINO_KEYS :
               SetHooks(initialHooks(key1, key2)) \/ SetHooks(kickGap(key2))
          /\ gameState = idleGameState
       \/ /\ mounted = "script"
          /\ \E index1 \in PieceIndexes, index2 \in PieceIndexes :
               gameState = resetGame(index1, index2) \/ gameState = simpleGap(index1)
          /\ SetHooks(idleHooks)
    /\ MountedTimers
    /\ last = NoLast
    /\ used = 0

\* START GAME / Play Again with every outcome of the two draws.
SpawnStart ==
    /\ mounted = "part_000"
    /\ gameOver \/ (~gameStarted /\ ~isPaused)
    /\ \E key1 \in TETROMINO_KEYS, key2 \in TETROMINO_KEYS :
         KickEvent(startGame(Hooks, key1, key2), NoLast, 1)

\* New Game / Play Again with every outcome of the two draws.
SpawnReset ==
    /\ mounted = "script"
    /\ gameState.gameOver \/ ~gameState.isPaused
    /\ InHorizon \/ gameState.gameOver
    /\ \E index1 \in PieceIndexes, index2 \in PieceIndexes :
         SimpleEvent(resetGame(index1, index2), NoLast, 1)

NextSpawn == SpawnStart \/ HardDrop \/ SpawnReset \/ SimpleTick

SpecSpawn == InitSpawn /\ [][NextSpawn]_vars

StackEmpty == \A r \in 1..Len(Stack) : \A x \in 1..Len(Stack[r]) : Vacant(Stack[r][x])

\* Row r of the board holds a cell once the active piece is written at the row
\* where the step locked it.
LockedRowOccupied(r) ==
    \E x \in 1..10 :
        \/ ~Vacant(Stack[r][x])
        \/ Covers(ActiveShape, ActiveX, last'.row, x - 1, r - 1)

\* A step that locked the piece and cleared every row that held a cell.
Emptied ==
    /\ last'.op = "lock"
    /\ last'.cleared = Cardinality({r \in 1..20 : LockedRowOccupied(r)})

\* C15: in both implementations, on an empty board the spawn position of each
\* of the seven piece types does not collide, at start/reset and after a lock:
\* the step ends with the board empty, the piece at y = 0 and no game over, and
\* a piece at y = 0 over an empty board never collides.
C15_SpawnFits ==
    /\ [](StackEmpty /\ ActiveY = 0 => ~Blocked(0, 0))
    /\ [][(StartStep \/ Emptied) => (StackEmpty' /\ ActiveY' = 0 /\ ~GameOverFlag')]_vars

\* The T of script.js was spawned by the lock that cleared the whole board.
C15_Witness ==
    /\ ~Kick /\ last.op = "lock" /\ last.cleared = 4 /\ StackEmpty
    /\ gameState.currentColor = 6 /\ gameState.position.y = 0

\* ---------------------------------------------------------------- C16
\* The clear step of the mounted component applied to its board.
ClearAgain == IF Kick THEN clearFull(board) ELSE clearLines(gameState.board)

\* C16: in both implementations the clear step applied to a board the clear
\* step produced clears 0 rows and returns the same board; no row is full in
\* any reachable state.
C16_ClearIdempotent ==
    /\ \A r \in 1..Len(Stack) : \E x \in 1..Len(Stack[r]) : Vacant(Stack[r][x])
    /\ ClearAgain = <<Stack, 0>>

\* A lock of part_000 cleared two rows and the game goes on.
C16_Witness == Kick /\ last.op = "lock" /\ last.cleared = 2 /\ ~gameOver /\ ~StackEmpty

\* ---------------------------------------------------------------- C17
\* A step that spawned a piece: reset/start, or a lock that did not end the
\* game.
SpawnStep == StartStep \/ (last'.op = "lock" /\ ~GameOverFlag')

MaxRows == 5

ClearKinds == {"full", "left", "right", "empty"}

kickRow(kind) ==
    [x \in 1..BOARD_WIDTH |->
        IF kind = "full" \/ (kind = "left" /\ x = 1) \/ (kind = "right" /\ x = BOARD_WIDTH)
        THEN "bg-cyan-400" ELSE Null]

simpleRow(kind) ==
    [x \in 1..BOARD_WIDTH |->
        IF kind = "full" \/ (kind = "left" /\ x = 1) \/ (kind = "right" /\ x = BOARD_WIDTH)
        THEN 1 ELSE 0]

InitClear ==
    /\ mounted = "part_000"
    /\ SetHooks(initialHooks("I", "I"))
    /\ gameState = idleGameState
    /\ MountedTimers
    /\ last = NoLast
    /\ used = 0

ClearPush ==
    /\ last.op = "none"
    /\ used < MaxRows
    /\ \E kind \in ClearKinds :
         /\ board' = [board EXCEPT ![BOARD_HEIGHT - used] = copyMatrix(<<kickRow(kind)>>)[1]]
         /\ gameState' = [gameState EXCEPT
                            !.board[BOARD_HEIGHT - used] = copyMatrix(<<simpleRow(kind)>>)[1]]
    /\ used' = used + 1
    /\ UNCHANGED <<mounted, currentPiece, nextPiece, score, lines, level, gameOver,
                   isPaused, gameStarted, timers, last>>

\* Steps 2-3 of processBoardUpdate and clearLines, each on its board.
ClearApply ==
    /\ last.op = "none"
    /\ board' = clearFull(board)[1]
    /\ gameState' = [gameState EXCEPT !.board = clearLines(gameState.board)[1]]
    /\ last' = [op |-> "clear", how |-> "", cleared |-> clearFull(board)[2], row |-> 0]
    /\ UNCHANGED <<mounted, currentPiece, nextPiece, score, lines, level, gameOver,
                   isPaused, gameStarted, timers, used>>

NextClear == ClearPush \/ ClearApply

SpecClear == InitClear /\ [][NextClear]_vars

\* Which cells of a board are occupied.
KickPattern(b) == [r \in 1..Len(b) |-> [x \in 1..Len(b[r]) |-> b[r][x] # Null]]
SimplePattern(b) == [r \in 1..Len(b) |-> [x \in 1..Len(b[r]) |-> b[r][x] # 0]]

RowFull(row) == \A x \in 1..Len(row) : row[x]

\* out is k empty rows followed by the rows of in that are not full, in their
\* original order (both given as patterns).
Partitioned(in, out, k) ==
    /\ Len(out) = Len(in)
    /\ \A r \in 1..k : \A x \in 1..Len(out[r]) : ~out[r][x]
    /\ \A j \in 1..(Len(in) - k) :
         \E r \in 1..Len(in) :
             /\ ~RowFull(in[r])
             /\ Cardinality({q \in 1..r : ~RowFull(in[q])}) = j
             /\ out[k + j] = in[r]

\* C18: for every board with k full rows, both clear steps return the count k
\* and a board of k empty rows followed by the rows that are not full, in
\* their original order; the two implementations agree on every input board.
C18_ClearPartition ==
    LET in == KickPattern(board)
        k == Cardinality({r \in 1..Len(in) : RowFull(in[r])})
        a == clearFull(board)
        b == clearLines(gameState.board)
    IN  /\ SimplePattern(gameState.board) = in
        /\ a[2] = k /\ b[2] = k
        /\ Partitioned(in, KickPattern(a[1]), k)
        /\ Partitioned(in, SimplePattern(b[1]), k)
        /\ KickPattern(a[1]) = SimplePattern(b[1])

\* Three full rows were cleared from between two rows that are kept: the row
\* with its right cell now lies on the row with its left cell.
C18_Witness ==
    /\ last.op = "clear" /\ last.cleared = 3
    /\ gameState.board[20][1] = 1 /\ gameState.board[19][10] = 1
    /\ board[20][1] # Null /\ board[19][10] # Null

\* ---------------------------------------------------------------- C19
\* The largest d >= 0 such that the active piece collides nowhere from y to
\* y + d.
Descent ==
    CHOOSE d \in 0..20 :
        /\ Blocked(0, d + 1)
        /\ \A e \in 0..d : ~Blocked(0, e)

\* The board with the cells of the active piece written at column x and row
\* y + d, and nothing else changed.
Landed(d) ==
    [r \in 1..20 |->
        [x \in 1..10 |->
            IF /\ r - 1 - (ActiveY + d) \in 0..(Len(ActiveShape) - 1)
               /\ x - 1 - ActiveX \in 0..(Len(ActiveShape[1]) - 1)
               /\ ActiveShape[r - (ActiveY + d)][x - ActiveX] # 0
            THEN currentPiece.color ELSE board[r][x]]]

\* C19: in part_000 a hardDrop from Running writes the cells of the piece at
\* column x and row y + d, d the largest offset with no collision from y to
\* y + d, and nowhere else, and the same operation clears and spawns.
C19_HardDropLands ==
    [][(Kick /\ last'.op = "lock" /\ last'.how = "hard") =>
          LET d == Descent
              cleared == clearFull(copyMatrix(Landed(d)))
          IN  /\ Status = "Running"
              /\ last'.row = ActiveY + d
              /\ board' = cleared[1]
              /\ lines' = lines + cleared[2]
              /\ \/ gameOver'
                 \/ /\ currentPiece'.type = nextPiece.type
                    /\ currentPiece'.pos.y = 0
                    /\ nextPiece' \in KickCatalogue]_vars

\* A hard drop of part_000 fell to row 16 and cleared four rows.
C19_Witness ==
    Kick /\ last.op = "lock" /\ last.how = "hard" /\ last.row = 16 /\ last.cleared = 4

\* ---------------------------------------------------------------- C20
\* The board of a lock step once the piece is written at the row where it
\* locked and the full rows are cleared.
LockedAndCleared ==
    IF Kick
    THEN clearFull(Merge(board, currentPiece, currentPiece.pos.x, last'.row))[1]
    ELSE clearLines(placePiece(gameState.board, gameState.currentPiece,
                               gameState.position.x, last'.row,
                               gameState.currentColor))[1]

\* The active piece without its position.
ActivePiece ==
    IF Kick THEN <<currentPiece.type, currentPiece.shape, currentPiece.color>>
    ELSE <<gameState.currentPiece, gameState.currentColor>>

\* C20: in both implementations, when the piece to spawn collides with the
\* freshly locked-and-cleared board, gameOver is set, the board of the
\* resulting state is that locked-and-cleared board (it holds the cells of the
\* last piece), and the active piece and the next piece are not replaced.
C20_GameOverBoard ==
    [][(last'.op = "lock" /\ GameOverFlag') =>
          /\ Stack' = LockedAndCleared
          /\ ActivePiece' = ActivePiece
          /\ NextFrame' = NextFrame]_vars

\* ---------------------------------------------------------------- C21
\* Two handlers of part_000 that fire one after the other before the component
\* has rendered again: the interval callback (savedCallback.current) and the
\* keydown listener are replaced in effects, after the render, so both still
\* are the closures of the last render.  Both read c = the hooks of that
\* render; the updaters of the second are applied to what the first queued.
Handlers == {"tick", "left", "right", "rotate", "soft", "hard"}

\* The handler `name` with closure c on the pending hooks s.
kickApply(name, c, s, key) ==
    CASE name = "tick" -> drop(c, s, key)
      [] name = "left" -> IF keySwitch(c) THEN move(c, s, -1, 0).s ELSE s
      [] name = "right" -> IF keySwitch(c) THEN move(c, s, 1, 0).s ELSE s
      [] name = "rotate" -> IF keySwitch(c) THEN rotate(c, s) ELSE s
      [] name = "soft" -> IF keySwitch(c)
                          THEN [drop(c, s, key) EXCEPT !.score = drop(c, s, key).score + 1]
                          ELSE s
      [] name = "hard" -> IF keySwitch(c) THEN hardDrop(c, s, key) ELSE s

\* Whether the handler runs processBoardUpdate.
kickLocks(name, c) ==
    \/ name = "hard" /\ ~Rejects(c)
    \/ name \in {"tick", "soft"} /\ dropSpawns(c)

\* `first` then `second` with the closures of one render; `used` counts the
\* pairs.
RacePair(first, second) ==
    \E key1 \in kickDraws(kickLocks(first, Hooks)),
       key2 \in kickDraws(kickLocks(second, Hooks)) :
        KickEvent(kickApply(second, Hooks, kickApply(first, Hooks, Hooks, key1), key2),
                  [op |-> "race", how |-> <<first, second>>, cleared |-> 0, row |-> 0],
                  1)

\* A gravity tick, then a command or another tick.
RaceAfterTick ==
    /\ mounted = "part_000"
    /\ timers # <<>>
    /\ InHorizon
    /\ \E second \in Handlers : RacePair("tick", second)

\* A command, then a tick or another command.
RaceAfterCommand ==
    /\ mounted = "part_000"
    /\ tickRateSet(Hooks)
    /\ InHorizon
    /\ \E first \in Handlers \ {"tick"} : \E second \in Handlers : RacePair(first, second)

NextRace == RaceAfterTick \/ RaceAfterCommand

SpecRace == InitKick /\ [][NextRace]_vars

\* What the pair leaves when the second handler runs on the state the first
\* one left (for some outcome of the draws).
OneAfterTheOther(first, second) ==
    {kickApply(second, s1, s1, key2) :
        s1 \in {kickApply(first, Hooks, Hooks, key1) : key1 \in DrawKeys},
        key2 \in DrawKeys}

\* C21: in part_000 every tick and command handler acts on the state left by
\* the previously completed handler: when two of them fire one after the other
\* before the component has rendered again, the second does not act on the
\* pre-state of the first.
C21_NoStaleHandler ==
    [][last'.op = "race" => Hooks' \in OneAfterTheOther(last'.how[1], last'.how[2])]_vars

\* ---------------------------------------------------------------- C22
\* C22: a gravity timer is active exactly while the status is Running: no
\* interval is scheduled while Ready, Paused or GameOver (Tick and SimpleTick
\* are only delivered by a scheduled interval).
C22_TimerIffRunning == (timers # <<>>) <=> (Status = "Running")

\* ---------------------------------------------------------------- C23
\* C23: at most one gravity timer is active at any moment: whenever the level
\* or the status changes, the previous interval is cleared before the new one
\* is created.
C23_OneTimer == Len(timers) <= 1

\* part_000 after a lock that raised the level: the interval was replaced.
C23_Witness ==
    /\ Kick
    /\ last.op = "lock"
    /\ level = 3
    /\ timers = <<tickRate(Hooks)>>
    /\ timers # <<tickRate([Hooks EXCEPT !.level = 2])>>

\* ---------------------------------------------------------------- C24
\* The cells <<column, row>> the active piece occupies.
ActiveCells ==
    {<<ActiveX + j - 1, ActiveY + i - 1>> :
        <<i, j>> \in {p \in (1..Len(ActiveShape)) \X (1..Len(ActiveShape[1])) :
                        ActiveShape[p[1]][p[2]] # 0}}

Occupied(b) ==
    Cardinality({p \in (1..Len(b)) \X (1..Len(b[1])) : ~Vacant(b[p[1]][p[2]])})

\* C25: every lock writes all 4 cells of the piece into previously empty
\* cells of the board, so a lock that clears k rows changes the number of
\* occupied board cells by exactly 4 - 10k.
C25_LockCells ==
    [][last'.op = "lock" =>
          Occupied(Stack') = Occupied(Stack) + 4 - 10 * last'.cleared]_vars

\* ---------------------------------------------------------------- C26
\* C26: no lock clears more than 4 rows: the number of rows cleared is one of
\* 0..4, and the lookup of part_000 in scoreMultipliers (index linesCleared,
\* here linesCleared + 1) is within the array.
C26_ClearedRange ==
    [][last'.op = "lock" =>
          /\ last'.cleared \in 0..4
          /\ Kick => last'.cleared + 1 \in DOMAIN scoreMultipliers]_vars

\* A lock of script.js cleared four rows at once.
C26_Witness ==
    /\ ~Kick
    /\ last.op = "lock"
    /\ last.cleared = 4
    /\ gameState.lines = 4 * ClearedBefore + 4

\* ---------------------------------------------------------------- C27
\* The four orientations of a catalogue shape.
Turns(m) == {m, Clockwise(m), Clockwise(Clockwise(m)), Clockwise(Clockwise(Clockwise(m)))}

KickColours ==
    /\ currentPiece.shape \in Turns(TETROMINOES[currentPiece.type].shape)
    /\ currentPiece.color = TETROMINOES[currentPiece.type].color
    /\ nextPiece.shape = TETROMINOES[nextPiece.type].shape
    /\ nextPiece.color = TETROMINOES[nextPiece.type].color

\* script.js: the colour is the index of the piece in PIECES (and in COLORS).
SimpleColours ==
    /\ gameState.currentPiece \in Turns(PIECES[gameState.currentColor])
    /\ gameState.nextPiece = PIECES[gameState.nextColor]

\* C27: in every reachable state the colour carried by the active piece and
\* by the next piece is the colour the catalogue gives to that piece's shape
\* type, also after spawns that refill the queue and after rotations.
C27_ColourOfShape == IF Kick THEN KickColours ELSE SimpleColours

\* ---------------------------------------------------------------- C28
\* The life of one active piece: a running game with a fresh piece at its
\* spawn position, on an empty board or above a stack; gravity ticks, moves,
\* rotations and soft drops in any order until the piece is locked.  `used`
\* counts the gravity ticks the piece received.
InitFall ==
    /\ \/ /\ mounted = "part_000"
          /\ \E key \in TETROMINO_KEYS :
               \/ SetHooks(startGame(initialHooks("I", "I"), key, "I"))
               \/ SetHooks(kickSession("well1", key, "I"))
          /\ gameState = idleGameState
       \/ /\ mounted = "script"
          /\ \E index \in PieceIndexes :
               \/ gameState = resetGame(0, index)
               \/ gameState = simpleSession("well1", index, 0)
          /\ SetHooks(idleHooks)
    /\ MountedTimers
    /\ last = NoLast
    /\ used = 0

\* The interval callback of part_000.
FallTickKick ==
    /\ mounted = "part_000"
    /\ last.op # "lock"
    /\ timers # <<>>
    /\ \E key \in kickDraws(dropSpawns(Hooks)) :
         KickEvent(drop(Hooks, Hooks, key), dropRecord(Hooks, "drop"), 1)

\* The interval callback of script.js.
FallTickSimple ==
    /\ mounted = "script"
    /\ last.op # "lock"
    /\ timers # <<>>
    /\ \E index1 \in simpleDraws(moveDownSpawns(gameState)),
          index2 \in simpleDraws(moveDownSpawns(gameState)) :
         SimpleEvent(moveDown(gameState, index1, index2),
                     moveDownRecord(gameState, "drop"), 1)

\* The arrow keys of part_000.
FallKeyKick ==
    /\ mounted = "part_000"
    /\ last.op # "lock"
    /\ \E name \in {"left", "right", "rotate", "soft"} :
       \E key \in kickDraws(kickLocks(name, Hooks)) :
         KickEvent(kickApply(name, Hooks, Hooks, key),
                   IF name = "soft" THEN dropRecord(Hooks, "soft") ELSE NoLast, 0)

\* The arrow keys of script.js.
FallKeySimple ==
    /\ mounted = "script"
    /\ last.op # "lock"
    /\ \/ \E dx \in {-1, 1} : SimpleEvent(keyShift(gameState, dx), NoLast, 0)
       \/ SimpleEvent(keyRotate(gameState), NoLast, 0)
       \/ \E index1 \in simpleDraws(moveDownSpawns(gameState)),
             index2 \in simpleDraws(moveDownSpawns(gameState)) :
            SimpleEvent(moveDown(gameState, index1, index2),
                        moveDownRecord(gameState, "soft"), 0)

NextFall == FallTickKick \/ FallTickSimple \/ FallKeyKick \/ FallKeySimple

SpecFall == InitFall /\ [][NextFall]_vars

====
